---- MODULE Spec2Model ----
(***************************************************************************)
(* Model of admin/tool/usertours/amd/src/configurationtour.js: the         *)
(* category filter of the user tours configuration page.  Two <select      *)
(* multiple> controls, filter_category[] (categorySelect) and              *)
(* filter_exclude_category[] (excludeSelect), and the handlers that keep   *)
(* the second one derived from the first.                                  *)
(*                                                                         *)
(* An option is a record [value, text, selected, disabled].  A text is a   *)
(* sequence of one-character strings, so that String.startsWith and        *)
(* String.split(' / ') are computed on characters, as the code does.       *)
(* The texts of the catalogue use only letters, spaces and "/", which      *)
(* the HTML parser reads back unchanged from the markup of line 126.       *)
(***************************************************************************)
EXTENDS Integers, Sequences, FiniteSets, TLC

VARIABLES categorySelect, excludeSelect, listeners, phase, pending, err,
          last, before, dropped

\* last, before and dropped are history variables: the last step taken,
\* the two controls as the last handler found them, and the values that
\* changes of the primary control removed from the exclude control while
\* selected, since the user last touched the exclude control.
vars == <<categorySelect, excludeSelect, listeners, phase, pending, err,
          last, before, dropped>>

\* ------------------------------------------------------------------ bounds
\* Largest number of options the server renders into the primary control.
MaxOpts == 3

\* Number of further children of "A" in the long option list of SpecWide.
WideKids == 7

\* --------------------------------------------------------------- constants
ANY_VALUE == "__ANYVALUE__"

\* The " / " of lines 112, 154 and 161.
Delim == <<" ", "/", " ">>

\* The 10 of Math.min(..., 10).
MaxRows == 10

\* ------------------------------------------------------------------- texts
RECURSIVE Join(_)
\* The display path of a list of category names: the names joined by " / ".
Join(segs) ==
    IF Len(segs) = 0 THEN <<>>
    ELSE IF Len(segs) = 1 THEN segs[1]
    ELSE segs[1] \o Delim \o Join(Tail(segs))

\* String.prototype.startsWith.
StartsWith(s, p) ==
    /\ Len(p) <= Len(s)
    /\ SubSeq(s, 1, Len(p)) = p

RECURSIVE SplitFrom(_, _, _)
\* String.prototype.split(' / '): scan left to right, cut at every
\* occurrence of the separator, occurrences do not overlap.
SplitFrom(s, i, cur) ==
    IF i > Len(s) THEN <<cur>>
    ELSE IF StartsWith(SubSeq(s, i, Len(s)), Delim)
         THEN <<cur>> \o SplitFrom(s, i + Len(Delim), <<>>)
         ELSE SplitFrom(s, i + 1, Append(cur, s[i]))

Split(s) == SplitFrom(s, 1, <<>>)

Min(a, b) == IF a <= b THEN a ELSE b

\* Collation weight of a character: white space before punctuation before
\* letters, letters in alphabetical order (the root collation).
Rank(c) ==
    CASE c = " " -> 0
      [] c = "/" -> 1
      [] c = "A" -> 2
      [] c = "B" -> 3
      [] c = "C" -> 4
      [] c = "D" -> 5
      [] c = "E" -> 6
      [] c = "F" -> 7
      [] c = "G" -> 8
      [] c = "H" -> 9
      [] c = "I" -> 10
      [] c = "J" -> 11
      [] c = "K" -> 12
      [] c = "Z" -> 27
      [] OTHER -> 99

RECURSIVE localeCompare(_, _)
\* a.localeCompare(b): negative, zero or positive.
localeCompare(a, b) ==
    IF Len(a) = 0 /\ Len(b) = 0 THEN 0
    ELSE IF Len(a) = 0 THEN -1
    ELSE IF Len(b) = 0 THEN 1
    ELSE IF Rank(a[1]) < Rank(b[1]) THEN -1
    ELSE IF Rank(a[1]) > Rank(b[1]) THEN 1
    ELSE localeCompare(Tail(a), Tail(b))

\* ----------------------------------------------------------- DOM helpers
Option(v, t, s, d) == [value |-> v, text |-> t, selected |-> s, disabled |-> d]

\* new Set(Array.from(select.selectedOptions).map(option => option.value))
SelectedValues(options) ==
    {options[i].value : i \in {j \in DOMAIN options : options[j].selected}}

\* select.querySelector(`option[value="${v}"]`): the index of the first
\* option with that value, 0 for null.
QueryOption(options, v) ==
    IF \E i \in DOMAIN options : options[i].value = v
    THEN CHOOSE i \in DOMAIN options :
            /\ options[i].value = v
            /\ \A j \in DOMAIN options : options[j].value = v => i <= j
    ELSE 0

Values(options) == {options[i].value : i \in DOMAIN options}

\* ------------------------------------------------------------ adjustHeight
\* Variant of line 61 without the cap of ten rows.
adjustHeightUncapped(n) == IF n = 0 THEN 1 ELSE n

adjustHeight(n) == Min(IF n = 0 THEN 1 ELSE n, MaxRows)

\* ------------------------------------------------ updateAnyOptionSelection
\* Variant of line 73 without the size === 0 case.
isAnySelectedOnlyWhenPicked(selectedCategories) ==
    /\ Cardinality(selectedCategories) = 1
    /\ ANY_VALUE \in selectedCategories

\* Line 73.
isAnySelectedOf(selectedCategories) ==
    \/ Cardinality(selectedCategories) = 0
    \/ /\ Cardinality(selectedCategories) = 1
       /\ ANY_VALUE \in selectedCategories

\* Variant of lines 75-76 that disables the sentinel when it is selected.
updateAnyOptionSelectionSwapped(options, selectedCategories) ==
    LET anyOption == QueryOption(options, ANY_VALUE)
        isAnySelected == isAnySelectedOf(selectedCategories)
    IN  IF anyOption = 0
        THEN [options |-> options, selectedCategories |-> selectedCategories,
              isAnySelected |-> isAnySelected, threw |-> TRUE]
        ELSE [options |-> [options EXCEPT ![anyOption].selected = isAnySelected,
                                          ![anyOption].disabled = isAnySelected],
              selectedCategories |->
                  IF isAnySelected THEN selectedCategories \cup {ANY_VALUE}
                  ELSE selectedCategories,
              isAnySelected |-> isAnySelected, threw |-> FALSE]

\* Returns the options after the call, the set after the call, the result,
\* and whether the call raised (anyOption is null at line 75).
updateAnyOptionSelection(options, selectedCategories) ==
    LET anyOption == QueryOption(options, ANY_VALUE)
        isAnySelected == isAnySelectedOf(selectedCategories)
    IN  IF anyOption = 0
        THEN [options |-> options, selectedCategories |-> selectedCategories,
              isAnySelected |-> isAnySelected, threw |-> TRUE]
        ELSE [options |-> [options EXCEPT ![anyOption].selected = isAnySelected,
                                          ![anyOption].disabled = ~isAnySelected],
              selectedCategories |->
                  IF isAnySelected THEN selectedCategories \cup {ANY_VALUE}
                  ELSE selectedCategories,
              isAnySelected |-> isAnySelected, threw |-> FALSE]

\* ------------------------------------------------- updateExcludeCategories
\* Map.prototype.set on a map kept as a sequence of <<key, value>> pairs in
\* insertion order.
MapSet(m, k, v) ==
    IF \E i \in DOMAIN m : m[i][1] = k
    THEN [i \in DOMAIN m |-> IF m[i][1] = k THEN <<k, v>> ELSE m[i]]
    ELSE Append(m, <<k, v>>)

\* Variant of line 112 that compares without the " / ".
isChildByPrefix(options, option, selectedCategories) ==
    \E selected \in selectedCategories :
        LET selectedOption == options[QueryOption(options, selected)]
        IN  StartsWith(option.text, selectedOption.text)

\* Line 110-113: is the option's text the text of a selected option
\* followed by " / " and more.
isChild(options, option, selectedCategories) ==
    \E selected \in selectedCategories :
        LET selectedOption == options[QueryOption(options, selected)]
        IN  StartsWith(option.text, selectedOption.text \o Delim)

RECURSIVE excludeOptionsUnfiltered(_, _, _, _, _)
\* Variant of lines 100-120 without the filter of line 101 and the test of
\* line 105: with 'Any' selected every option is taken.
excludeOptionsUnfiltered(options, i, isAnySelected, selectedCategories, m) ==
    IF i > Len(options) THEN m
    ELSE LET option == options[i]
             take == IF isAnySelected THEN TRUE
                     ELSE isChild(options, option, selectedCategories)
         IN  excludeOptionsUnfiltered(options, i + 1, isAnySelected, selectedCategories,
                 IF take THEN MapSet(m, option.value, option.text) ELSE m)

RECURSIVE excludeOptionsChildrenOnly(_, _, _, _, _)
\* Variant of lines 100-120 without the branch of lines 103-107: the child
\* test is applied whether or not 'Any' is selected.
excludeOptionsChildrenOnly(options, i, isAnySelected, selectedCategories, m) ==
    IF i > Len(options) THEN m
    ELSE LET option == options[i]
             take == IF option.value = ANY_VALUE THEN FALSE
                     ELSE isChild(options, option, selectedCategories)
         IN  excludeOptionsChildrenOnly(options, i + 1, isAnySelected, selectedCategories,
                 IF take THEN MapSet(m, option.value, option.text) ELSE m)

RECURSIVE excludeOptionsFrom(_, _, _, _, _)
\* Lines 100-120: the forEach over the options that are not the sentinel.
excludeOptionsFrom(options, i, isAnySelected, selectedCategories, m) ==
    IF i > Len(options) THEN m
    ELSE LET option == options[i]
             take == IF option.value = ANY_VALUE THEN FALSE
                     ELSE IF isAnySelected
                          THEN option.value \notin selectedCategories
                          ELSE isChild(options, option, selectedCategories)
         IN  excludeOptionsFrom(options, i + 1, isAnySelected, selectedCategories,
                 IF take THEN MapSet(m, option.value, option.text) ELSE m)

RECURSIVE InsertSorted(_, _)
\* One step of a stable sort: x goes before the first pair that compares
\* greater than x.
InsertSorted(sorted, x) ==
    IF Len(sorted) = 0 THEN <<x>>
    ELSE IF localeCompare(x[2], sorted[1][2]) < 0 THEN <<x>> \o sorted
    ELSE <<sorted[1]>> \o InsertSorted(Tail(sorted), x)

\* Variant of line 124 that leaves the pairs in insertion order.
SortPairsUnsorted(pairs, acc) == pairs

RECURSIVE SortPairs(_, _)
\* Array.prototype.sort(([, a], [, b]) => a.localeCompare(b)), stable.
SortPairs(pairs, acc) ==
    IF Len(pairs) = 0 THEN acc
    ELSE SortPairs(Tail(pairs), InsertSorted(acc, pairs[1]))

\* Variant of line 126 that writes the selected attribute on every option.
RenderOptionsAllSelected(pairs, excludeSelected) ==
    [i \in DOMAIN pairs |-> Option(pairs[i][1], pairs[i][2], TRUE, FALSE)]

\* Variant of line 126 that never writes the selected attribute.
RenderOptionsUnselected(pairs, excludeSelected) ==
    [i \in DOMAIN pairs |-> Option(pairs[i][1], pairs[i][2], FALSE, FALSE)]

\* Lines 123-127: the markup of the options, read back by the parser.
RenderOptions(pairs, excludeSelected) ==
    [i \in DOMAIN pairs |->
        Option(pairs[i][1], pairs[i][2], pairs[i][1] \in excludeSelected, FALSE)]

\* Returns both controls after the call and whether the call raised.
updateExcludeCategories(cat, ex) ==
    LET selected0 == SelectedValues(cat.options)
        any == updateAnyOptionSelection(cat.options, selected0)
        excludeSelected == SelectedValues(ex.options)
        excludeOptions == excludeOptionsFrom(any.options, 1, any.isAnySelected,
                                             any.selectedCategories, <<>>)
        rendered == RenderOptions(SortPairs(excludeOptions, <<>>), excludeSelected)
    IN  IF any.threw
        THEN [category |-> cat, exclude |-> ex, threw |-> TRUE]
        ELSE [category |-> [cat EXCEPT !.options = any.options],
              exclude |-> [ex EXCEPT !.options = rendered,
                                     !.size = adjustHeight(Len(rendered))],
              threw |-> FALSE]

\* ------------------------------------------ updateCategorySelectionOptions
isParentOrChildPath(path1, path2) ==
    \A i \in 1..Min(Len(path1), Len(path2)) : path1[i] = path2[i]

\* Lines 156-163.
isRelatedToSelected(options, option, selectedCategories) ==
    \E selectedValue \in selectedCategories :
        /\ selectedValue # ANY_VALUE
        /\ LET selectedOption == options[QueryOption(options, selectedValue)]
           IN  isParentOrChildPath(Split(option.text), Split(selectedOption.text))

updateCategorySelectionOptions(options) ==
    LET selectedCategories == SelectedValues(options)
    IN  [i \in DOMAIN options |->
            IF options[i].value = ANY_VALUE THEN options[i]
            ELSE IF options[i].value \in selectedCategories
                 THEN [options[i] EXCEPT !.disabled = FALSE]
                 ELSE [options[i] EXCEPT !.disabled =
                          isRelatedToSelected(options, options[i], selectedCategories)]]

\* ------------------------------------------------------------ the page
\* The categories the server can render: value and display path.  The
\* order is the server's, not the alphabetical one.  The label of the
\* sentinel is "Z"; "Z / B" is a real category whose path starts with it.
Catalog ==
    << <<"c2", Join(<< <<"A">>, <<"B">> >>)>>,
       <<ANY_VALUE, <<"Z">> >>,
       <<"c1", <<"A">> >>,
       <<"c4", <<"A", "B">> >>,
       <<"c5", Join(<< <<"Z">>, <<"B">> >>)>>,
       <<"c3", Join(<< <<"A">>, <<"B">>, <<"C">> >>)>> >>

\* The sub-lists of the catalogue of at most n entries, as sets of indices.
Picks(n) == {P \in SUBSET DOMAIN Catalog : Cardinality(P) <= n}

RECURSIVE SeqOfSet(_)
\* The members of a set of integers in increasing order.
SeqOfSet(S) ==
    IF S = {} THEN <<>>
    ELSE LET m == CHOOSE x \in S : \A y \in S : x <= y
         IN  <<m>> \o SeqOfSet(S \ {m})

\* A control whose options are the catalogue entries P, those of Sel
\* selected, none disabled.
OptionsOf(P, Sel) ==
    LET idx == SeqOfSet(P)
    IN  [i \in DOMAIN idx |->
            Option(Catalog[idx[i]][1], Catalog[idx[i]][2], idx[i] \in Sel, FALSE)]

\* A control that document.querySelector found, size attribute not set.
Control(options) == [present |-> TRUE, options |-> options, size |-> 0]

\* A control that document.querySelector did not find (null).
Absent == [present |-> FALSE, options |-> <<>>, size |-> 0]

NoSnapshot == [category |-> Absent, exclude |-> Absent]

Snapshot == [category |-> categorySelect, exclude |-> excludeSelect]

TypeOK ==
    /\ categorySelect.present \in BOOLEAN
    /\ excludeSelect.present \in BOOLEAN
    /\ listeners \subseteq {"category", "exclude"}
    /\ phase \in {"load", "ready"}
    /\ pending \in {"none", "category", "exclude"}
    /\ err \in BOOLEAN

\* The page as the server rendered it, before init() runs.  The exclude
\* control is rendered from the same category list as the primary one.
Init ==
    /\ \/ \E P \in Picks(MaxOpts) : \E Sel \in SUBSET P :
             /\ categorySelect = Control(OptionsOf(P, Sel))
             /\ \/ \E Q \in SUBSET P : \E SelQ \in SUBSET Q :
                      excludeSelect = Control(OptionsOf(Q, SelQ))
                \/ excludeSelect = Absent
       \/ /\ categorySelect = Absent
          /\ \/ \E Q \in Picks(MaxOpts) : \E SelQ \in SUBSET Q :
                   excludeSelect = Control(OptionsOf(Q, SelQ))
             \/ excludeSelect = Absent
    /\ listeners = {}
    /\ phase = "load"
    /\ pending = "none"
    /\ err = FALSE
    /\ last = "none"
    /\ before = NoSnapshot
    /\ dropped = {}

\* Variant of line 37 that tests the primary control only.
categoryPresent(cat, ex) == cat.present

\* Line 37.
bothPresent(cat, ex) == cat.present /\ ex.present

\* Variant of lines 39-46 with the listener of the primary control only.
registeredOnCategoryOnly == {"category"}

\* Lines 39-46: the controls init() adds a change listener to.
registeredListeners == {"category", "exclude"}

\* initConfigurationCategoryFilter, lines 33-53.
initConfigurationCategoryFilter ==
    /\ phase = "load"
    /\ phase' = "ready"
    /\ last' = "init"
    /\ before' = Snapshot
    /\ pending' = pending
    /\ dropped' = dropped
    /\ IF bothPresent(categorySelect, excludeSelect)
       THEN LET r == updateExcludeCategories(categorySelect, excludeSelect)
            IN  /\ listeners' = registeredListeners
                /\ err' = r.threw
                /\ IF r.threw
                   THEN UNCHANGED <<categorySelect, excludeSelect>>
                   ELSE /\ categorySelect' =
                              [r.category EXCEPT !.options =
                                  updateCategorySelectionOptions(r.category.options)]
                        /\ excludeSelect' =
                              [r.exclude EXCEPT !.options =
                                  updateCategorySelectionOptions(r.exclude.options)]
       ELSE UNCHANGED <<categorySelect, excludeSelect, listeners, err>>

\* The user toggles (ctrl-click) an enabled option of the primary control;
\* the browser flips its selectedness and queues the change event.
ToggleCategory ==
    /\ phase = "ready"
    /\ pending = "none"
    /\ categorySelect.present
    /\ \E i \in DOMAIN categorySelect.options :
          /\ ~categorySelect.options[i].disabled
          /\ categorySelect' =
                [categorySelect EXCEPT !.options[i].selected = ~@]
    /\ pending' = "category"
    /\ last' = "toggleCategory"
    /\ before' = NoSnapshot
    /\ UNCHANGED <<excludeSelect, listeners, phase, err, dropped>>

\* The same on the exclude control.
ToggleExclude ==
    /\ phase = "ready"
    /\ pending = "none"
    /\ excludeSelect.present
    /\ \E i \in DOMAIN excludeSelect.options :
          /\ ~excludeSelect.options[i].disabled
          /\ excludeSelect' =
                [excludeSelect EXCEPT !.options[i].selected = ~@]
    /\ pending' = "exclude"
    /\ last' = "toggleExclude"
    /\ before' = NoSnapshot
    /\ dropped' = {}
    /\ UNCHANGED <<categorySelect, listeners, phase, err>>

\* The listener of lines 39-42.
categoryChangeListener(cat, ex) ==
    LET cat1 == [cat EXCEPT !.options = updateCategorySelectionOptions(cat.options)]
        r == updateExcludeCategories(cat1, ex)
    IN  [category |-> r.category, exclude |-> r.exclude, threw |-> r.threw]

\* The listener of lines 44-46.
excludeChangeListener(cat, ex) ==
    [category |-> cat,
     exclude |-> [ex EXCEPT !.options = updateCategorySelectionOptions(ex.options)],
     threw |-> FALSE]

\* Dispatch of the change event of the primary control.
CategoryChange ==
    /\ pending = "category"
    /\ pending' = "none"
    /\ last' = "categoryChange"
    /\ before' = Snapshot
    /\ IF "category" \in listeners
       THEN LET r == categoryChangeListener(categorySelect, excludeSelect)
            IN  /\ categorySelect' = r.category
                /\ excludeSelect' = r.exclude
                /\ err' = r.threw
                /\ dropped' = dropped \cup (SelectedValues(excludeSelect.options)
                                                \ Values(r.exclude.options))
       ELSE UNCHANGED <<categorySelect, excludeSelect, err, dropped>>
    /\ UNCHANGED <<listeners, phase>>

\* Dispatch of the change event of the exclude control.
ExcludeChange ==
    /\ pending = "exclude"
    /\ pending' = "none"
    /\ last' = "excludeChange"
    /\ before' = Snapshot
    /\ IF "exclude" \in listeners
       THEN LET r == excludeChangeListener(categorySelect, excludeSelect)
            IN  /\ categorySelect' = r.category
                /\ excludeSelect' = r.exclude
                /\ err' = r.threw
       ELSE UNCHANGED <<categorySelect, excludeSelect, err>>
    /\ UNCHANGED <<listeners, phase, dropped>>

Next ==
    \/ initConfigurationCategoryFilter
    \/ ToggleCategory
    \/ ToggleExclude
    \/ CategoryChange
    \/ ExcludeChange

Spec == Init /\ [][Next]_vars

\* ------------------------------------------------- a long list of options
\* Names and values of the further children of "A".
KidNames == <<"C", "D", "E", "F", "G", "H", "I", "J", "K">>

KidIds == <<"k1", "k2", "k3", "k4", "k5", "k6", "k7", "k8", "k9">>

\* A page with more than ten categories: the sentinel, "A", "A / B" with
\* three children of its own, and WideKids further children of "A".
WideOptions ==
    << Option(ANY_VALUE, <<"Z">>, FALSE, FALSE),
       Option("w0", <<"A">>, FALSE, FALSE),
       Option("w1", Join(<< <<"A">>, <<"B">> >>), FALSE, FALSE),
       Option("w2", Join(<< <<"A">>, <<"B">>, <<"A">> >>), FALSE, FALSE),
       Option("w3", Join(<< <<"A">>, <<"B">>, <<"B">> >>), FALSE, FALSE),
       Option("w4", Join(<< <<"A">>, <<"B">>, <<"C">> >>), FALSE, FALSE) >>
    \o [k \in 1..WideKids |->
          Option(KidIds[k], Join(<< <<"A">>, <<KidNames[k]>> >>), FALSE, FALSE)]

WideInit ==
    /\ categorySelect = Control(WideOptions)
    /\ excludeSelect = Control(WideOptions)
    /\ listeners = {}
    /\ phase = "load"
    /\ pending = "none"
    /\ err = FALSE
    /\ last = "none"
    /\ before = NoSnapshot
    /\ dropped = {}

\* On the long page the user operates the primary control only.
NextWide ==
    \/ initConfigurationCategoryFilter
    \/ ToggleCategory
    \/ CategoryChange

SpecWide == WideInit /\ [][NextWide]_vars

\* ------------------------------------------------- a page with a deep tree
\* The categories of a page with three levels under "A", the sibling "AB"
\* with a child, and the category named "A /" with its child "B", whose
\* path "A / / B" is also the path of a child "/ B" of "A".
PageCatalog ==
    << <<"c3", Join(<< <<"A">>, <<"B">>, <<"C">> >>)>>,
       <<"n2", Join(<< <<"A", " ", "/">>, <<"B">> >>)>>,
       <<ANY_VALUE, <<"Z">> >>,
       <<"c6", Join(<< <<"A", "B">>, <<"C">> >>)>>,
       <<"c2", Join(<< <<"A">>, <<"B">> >>)>>,
       <<"c4", <<"A", "B">> >>,
       <<"n1", <<"A", " ", "/">> >>,
       <<"c1", <<"A">> >> >>

\* The options of that page, those of Sel selected, none disabled.
PageOptions(Sel) ==
    [i \in DOMAIN PageCatalog |->
        Option(PageCatalog[i][1], PageCatalog[i][2], i \in Sel, FALSE)]

\* The page as rendered: any selection in the primary control, none in
\* the exclude control.
PageInit ==
    /\ \E Sel \in SUBSET DOMAIN PageCatalog :
          categorySelect = Control(PageOptions(Sel))
    /\ excludeSelect = Control(PageOptions({}))
    /\ listeners = {}
    /\ phase = "load"
    /\ pending = "none"
    /\ err = FALSE
    /\ last = "none"
    /\ before = NoSnapshot
    /\ dropped = {}

SpecPage == PageInit /\ [][Next]_vars

\* ------------------------------------ a page without nested selections
\* No two selected real categories of `options` are ancestor and
\* descendant (lines 174-182 give FALSE for every such pair).
NoNestedSelection(options) ==
    \A i, k \in DOMAIN options :
        (/\ i # k
         /\ options[i].selected /\ options[i].value # ANY_VALUE
         /\ options[k].selected /\ options[k].value # ANY_VALUE)
            => ~isParentOrChildPath(Split(options[i].text), Split(options[k].text))

\* A page of Init with both controls, rendered without nested selections
\* in the primary control.
FlatInit ==
    /\ Init
    /\ categorySelect.present
    /\ excludeSelect.present
    /\ NoNestedSelection(categorySelect.options)

SpecFlat == FlatInit /\ [][Next]_vars

\* ================================================================ claims
\* Both controls are on the page.
BothControls == categorySelect.present /\ excludeSelect.present

\* The last handler ran updateExcludeCategories.
RecomputeRan == last \in {"init", "categoryChange"} /\ "category" \in listeners

\* ... and it returned normally, so the exclude control was rendered.
Rendered == RecomputeRan /\ ~err

HasAny(options) == ANY_VALUE \in Values(options)

NonSentinelValues(options) == Values(options) \ {ANY_VALUE}

\* min(max(n, 1), 10), written out.
Clamp(n) == IF n < 1 THEN 1 ELSE IF n > 10 THEN 10 ELSE n

\* p is a strict descendant of q by whole " / "-segments.
IsStrictDescendant(p, q) ==
    LET ps == Split(p)
        qs == Split(q)
    IN  Len(ps) > Len(qs) /\ SubSeq(ps, 1, Len(qs)) = qs

\* The values of the options that are strict segment descendants of a
\* selected option.
SegmentDescendants(options) ==
    {options[i].value : i \in {j \in DOMAIN options :
        \E k \in DOMAIN options :
            /\ options[k].selected
            /\ IsStrictDescendant(options[j].text, options[k].text)}}

\* What the code puts in the exclude control for the primary options it
\* read: every real category when the selection is empty or only the
\* sentinel, otherwise the real categories whose text is the text of a
\* selected option (the sentinel's label included) followed by " / ".
CodeCandidates(options) ==
    IF SelectedValues(options) \subseteq {ANY_VALUE}
    THEN NonSentinelValues(options)
    ELSE {options[i].value : i \in {j \in DOMAIN options :
            /\ options[j].value # ANY_VALUE
            /\ \E k \in DOMAIN options :
                  /\ options[k].selected
                  /\ StartsWith(options[j].text, options[k].text \o Delim)}}

\* C1 (as stated): after initialization and after every change of the
\* primary control, the secondary control's options are exactly the primary
\* options that are strict " / "-segment descendants of a selected option.
C1_Original ==
    Rendered => Values(excludeSelect.options) = SegmentDescendants(categorySelect.options)

\* C1 (amended): after initialization and after every change of the primary
\* control, with S the primary options selected when the recomputation
\* starts: if S is empty or only the sentinel, the secondary control holds
\* every non-sentinel primary option; otherwise it holds exactly the
\* non-sentinel options whose displayPath is the displayPath of an option
\* of S (the sentinel's label if the sentinel is in S) followed by " / "
\* and more.  On a primary control without the sentinel option the
\* recomputation raises and the secondary control keeps its options.
C1_Amended ==
    RecomputeRan =>
        IF HasAny(before.category.options)
        THEN /\ ~err
             /\ Values(excludeSelect.options) = CodeCandidates(before.category.options)
        ELSE /\ err
             /\ excludeSelect = before.exclude

\* A change of the primary control left a real category selected, and the
\* secondary control holds some but not all of the real categories.
C1_Witness ==
    /\ Rendered
    /\ last = "categoryChange"
    /\ SelectedValues(categorySelect.options) \ {ANY_VALUE} # {}
    /\ Values(excludeSelect.options) # {}
    /\ Values(excludeSelect.options) # NonSentinelValues(categorySelect.options)

\* C2 (as stated): when no option of the primary control is selected,
\* recomputation yields an empty secondary option set and one visible row.
C2_Original ==
    (Rendered /\ SelectedValues(before.category.options) = {}) =>
        /\ excludeSelect.options = <<>>
        /\ excludeSelect.size = 1

\* C2 (amended): when no option of the primary control is selected,
\* recomputation counts the 'Any' option as selected and puts every
\* non-sentinel primary option into the secondary control, with
\* min(max(n, 1), 10) visible rows; the secondary control is empty only if
\* the primary control has no real category.  Without the sentinel
\* option the recomputation raises and the secondary control is unchanged.
C2_Amended ==
    (RecomputeRan /\ SelectedValues(before.category.options) = {}) =>
        IF HasAny(before.category.options)
        THEN /\ ~err
             /\ Values(excludeSelect.options) = NonSentinelValues(before.category.options)
             /\ excludeSelect.size = Clamp(Len(excludeSelect.options))
             /\ ANY_VALUE \in SelectedValues(categorySelect.options)
        ELSE /\ err
             /\ excludeSelect = before.exclude

\* Nothing was selected and the recomputation rendered two options or more.
C2_Witness ==
    /\ Rendered
    /\ SelectedValues(before.category.options) = {}
    /\ Len(excludeSelect.options) >= 2

\* The exclude options that were selected when the last handler started.
SelectedBefore == SelectedValues(before.exclude.options)

AboutToRecompute ==
    /\ BothControls
    /\ \/ phase = "load"
       \/ pending = "category" /\ "category" \in listeners

\* The primary control as updateExcludeCategories will find it: line 49
\* runs it first, line 41 after updateCategorySelectionOptions.
RecomputeInput ==
    IF phase = "load" THEN categorySelect
    ELSE [categorySelect EXCEPT !.options = updateCategorySelectionOptions(@)]

\* C4 (as stated): recomputation leaves the primary control's option list,
\* selected flags and disabled flags as they were.
C4_Original ==
    AboutToRecompute =>
        updateExcludeCategories(RecomputeInput, excludeSelect).category = RecomputeInput

\* C4 (amended): recomputation leaves the primary control's option list
\* (values, texts, order) and the selected and disabled flags of every
\* option other than the sentinel 'Any' option as they were; it sets the
\* sentinel's selected flag to "the selection is empty or only the
\* sentinel" and its disabled flag to the opposite, so the sentinel's flags
\* also change through recomputation.
C4_Amended ==
    AboutToRecompute =>
        LET in == RecomputeInput
            out == updateExcludeCategories(in, excludeSelect).category
            any == SelectedValues(in.options) \subseteq {ANY_VALUE}
        IN  /\ out.present = in.present
            /\ out.size = in.size
            /\ Len(out.options) = Len(in.options)
            /\ \A i \in DOMAIN in.options :
                  /\ out.options[i].value = in.options[i].value
                  /\ out.options[i].text = in.options[i].text
                  /\ IF in.options[i].value = ANY_VALUE
                     THEN /\ out.options[i].selected = any
                          /\ out.options[i].disabled = ~any
                     ELSE /\ out.options[i].selected = in.options[i].selected
                          /\ out.options[i].disabled = in.options[i].disabled

\* A change of the primary control was handled and the recomputation
\* deselected the sentinel, which the user had left selected.
C4_Witness ==
    /\ last = "categoryChange"
    /\ Rendered
    /\ ANY_VALUE \in SelectedValues(before.category.options)
    /\ ANY_VALUE \notin SelectedValues(categorySelect.options)
    /\ SelectedValues(categorySelect.options) # {}

\* The flags of the options of a control.
Selection(options) == [i \in DOMAIN options |-> options[i].selected]

Disabling(options) == [i \in DOMAIN options |-> options[i].disabled]

Listing(options) == [i \in DOMAIN options |-> <<options[i].value, options[i].text>>]

\* C5 (as stated): a change event on the secondary control runs no
\* controller code: both controls stay as the user's interaction left them.
C5_Original ==
    last = "excludeChange" =>
        /\ categorySelect = before.category
        /\ excludeSelect = before.exclude

\* C5 (amended): when both controls are present the controller subscribes
\* to the change notifications of both; a change event on the secondary
\* control runs updateCategorySelectionOptions on the secondary control,
\* which may change the disabled flags of the secondary options and leaves
\* the primary control, and the option list, selected flags and row count
\* of the secondary control, as the user's interaction left them.
C5_Amended ==
    /\ (phase = "ready" /\ BothControls) =>
            listeners = {"category", "exclude"}
    /\ last = "excludeChange" =>
        /\ ~err
        /\ categorySelect = before.category
        /\ excludeSelect.size = before.exclude.size
        /\ Listing(excludeSelect.options) = Listing(before.exclude.options)
        /\ Selection(excludeSelect.options) = Selection(before.exclude.options)

\* A change event on the secondary control changed a disabled flag.
C5_Witness ==
    /\ last = "excludeChange"
    /\ Disabling(excludeSelect.options) # Disabling(before.exclude.options)

\* C6: running the recomputation twice in a row gives, after the second
\* run, the secondary option list, selection state and row count of the
\* first run, whatever the state of the two controls.
C6_Idempotent ==
    BothControls =>
        LET once == updateExcludeCategories(categorySelect, excludeSelect)
            twice == updateExcludeCategories(once.category, once.exclude)
        IN  twice.exclude = once.exclude

\* C7: once init has run, no option of the secondary control has the value
\* "__ANYVALUE__", whatever is selected.
C7_NoSentinel ==
    (phase = "ready" /\ BothControls) =>
        ANY_VALUE \notin Values(excludeSelect.options)

\* The server had rendered the sentinel into the secondary control and
\* init ran with the sentinel selected in the primary control.
C7_Witness ==
    /\ last = "init"
    /\ Rendered
    /\ ANY_VALUE \in Values(before.exclude.options)
    /\ ANY_VALUE \in SelectedValues(before.category.options)
    /\ excludeSelect.options # <<>>

\* C8: after every recomputation the visible row count of the secondary
\* control is min(max(n, 1), 10), n the number of options rendered.
C8_RowCount ==
    Rendered => excludeSelect.size = Clamp(Len(excludeSelect.options))

\* A recomputation rendered more than ten options and set ten rows.
C8_Witness ==
    /\ Rendered
    /\ Len(excludeSelect.options) > 10
    /\ excludeSelect.size = 10

\* C9: with both controls present, initialization and the handling of
\* every change event complete without raising an error.
C9_NoError == err = FALSE

\* C10: if either control is absent, init attaches no listener, runs no
\* recomputation and changes nothing in the control that is present, and
\* no later change event runs a handler.
C10_AbsentNoOp ==
    (phase = "ready" /\ ~BothControls) =>
        /\ listeners = {}
        /\ ~err
        /\ last \in {"init", "categoryChange", "excludeChange"} =>
              /\ categorySelect = before.category
              /\ excludeSelect = before.exclude

\* init ran on a page with the primary control only, nothing selected in
\* it: a recomputation would have selected the sentinel.
C10_Witness ==
    /\ last = "init"
    /\ categorySelect.present
    /\ ~excludeSelect.present
    /\ HasAny(categorySelect.options)
    /\ Len(categorySelect.options) >= 2
    /\ SelectedValues(categorySelect.options) = {}

\* The selected options of `options` whose text followed by " / " starts
\* the text t.
SelectedAncestors(options, t) ==
    {k \in DOMAIN options :
        options[k].selected /\ StartsWith(t, options[k].text \o Delim)}

\* C11: after every recomputation the options of the secondary control are
\* in non-decreasing displayPath order and no value occurs twice, also when
\* an option is below several selected options.
C11_SortedUnique ==
    Rendered =>
        \A i, j \in DOMAIN excludeSelect.options :
            i < j =>
                /\ localeCompare(excludeSelect.options[i].text,
                                 excludeSelect.options[j].text) <= 0
                /\ excludeSelect.options[i].value # excludeSelect.options[j].value

\* A recomputation rendered several options, one of them below two of the
\* selected options.
C11_Witness ==
    /\ Rendered
    /\ Len(excludeSelect.options) >= 3
    /\ \E i \in DOMAIN excludeSelect.options :
          Cardinality(SelectedAncestors(before.category.options,
                                        excludeSelect.options[i].text)) >= 2

\* The recomputation took the branch of line 108: a real category, or the
\* sentinel with something else, was selected when it started.
MatchedChildren == Rendered /\ ~(SelectedValues(before.category.options) \subseteq {ANY_VALUE})

\* C12: matching is by whole " / "-delimited segments: every
\* option rendered as a candidate is a strict segment descendant of a
\* selected option, so an option whose path merely begins with the
\* characters of a selected path is never a candidate on its account.
C12_WholeSegments ==
    MatchedChildren =>
        \A i \in DOMAIN excludeSelect.options :
            \E k \in DOMAIN before.category.options :
                /\ before.category.options[k].selected
                /\ IsStrictDescendant(excludeSelect.options[i].text,
                                      before.category.options[k].text)

\* The values of the options that are neither the sentinel nor selected.
UnselectedReal(options) ==
    {options[i].value : i \in {j \in DOMAIN options :
        options[j].value # ANY_VALUE /\ ~options[j].selected}}

\* C13: when the 'Any' option counts as selected (the primary selection is
\* empty or is exactly the sentinel), recomputation puts into the
\* secondary control every primary option other than the sentinel and
\* other than the selected ones, that is every real category.
C13_AnyGivesAll ==
    (RecomputeRan /\ HasAny(before.category.options)
        /\ SelectedValues(before.category.options) \subseteq {ANY_VALUE}) =>
        /\ ~err
        /\ Values(excludeSelect.options) = UnselectedReal(before.category.options)
        /\ Len(excludeSelect.options) = Cardinality(NonSentinelValues(categorySelect.options))
        /\ \A i \in DOMAIN excludeSelect.options :
              \E k \in DOMAIN categorySelect.options :
                  /\ categorySelect.options[k].value = excludeSelect.options[i].value
                  /\ categorySelect.options[k].text = excludeSelect.options[i].text

\* The sentinel alone was selected and two real categories were rendered.
C13_Witness ==
    /\ Rendered
    /\ SelectedValues(before.category.options) = {ANY_VALUE}
    /\ Len(excludeSelect.options) >= 2

\* Some real category of the primary control is selected.
RealSelected == SelectedValues(categorySelect.options) \ {ANY_VALUE} # {}

\* C14: after initialization and after every handled change of the primary
\* control, the sentinel option of the primary control is selected exactly
\* when no real category is selected, and disabled exactly when it is not
\* selected.
C14_AnyFlags ==
    RecomputeRan =>
        \A i \in DOMAIN categorySelect.options :
            categorySelect.options[i].value = ANY_VALUE =>
                /\ categorySelect.options[i].selected <=> ~RealSelected
                /\ categorySelect.options[i].disabled <=> ~categorySelect.options[i].selected

\* The user selected a real category next to the selected sentinel and
\* the handler deselected and disabled the sentinel.
C14_Witness ==
    /\ last = "categoryChange"
    /\ RecomputeRan
    /\ ANY_VALUE \in SelectedValues(before.category.options)
    /\ RealSelected
    /\ \E i \in DOMAIN categorySelect.options :
          /\ categorySelect.options[i].value = ANY_VALUE
          /\ ~categorySelect.options[i].selected
          /\ categorySelect.options[i].disabled

\* One path is an ancestor of, a descendant of, or equal to the other, by
\* whole " / "-segments.
SegmentRelated(p, q) ==
    LET ps == Split(p)
        qs == Split(q)
    IN  \/ Len(ps) <= Len(qs) /\ SubSeq(qs, 1, Len(ps)) = ps
        \/ Len(qs) <= Len(ps) /\ SubSeq(ps, 1, Len(qs)) = qs

\* The option i of `options` is related to a selected real category.
RelatedToSelected(options, i) ==
    \E k \in DOMAIN options :
        /\ options[k].selected
        /\ options[k].value # ANY_VALUE
        /\ SegmentRelated(options[i].text, options[k].text)

\* The disabled flags of `options` are the ones the selection calls for.
DisablingRule(options) ==
    \A i \in DOMAIN options :
        /\ options[i].selected => ~options[i].disabled
        /\ options[i].value # ANY_VALUE =>
              (options[i].disabled <=>
                  (~options[i].selected /\ RelatedToSelected(options, i)))

\* C15: after initialization and after every handled change of the primary
\* control, a non-sentinel primary option is disabled exactly when it is
\* not selected and its path is an ancestor of, a descendant of, or equal
\* to the path of a selected non-sentinel option; every selected option is
\* enabled and a selected sentinel disables nothing.
C15_PrimaryDisabling ==
    (last \in {"init", "categoryChange"} /\ "category" \in listeners) =>
        DisablingRule(categorySelect.options)

\* C16: on a page rendered without nested selections, where the user
\* toggles enabled options only, no two selected real categories of the
\* primary control are ever ancestor and descendant.
C16_NeverNested ==
    \A i, k \in DOMAIN categorySelect.options :
        (/\ i # k
         /\ categorySelect.options[i].selected
         /\ categorySelect.options[i].value # ANY_VALUE
         /\ categorySelect.options[k].selected
         /\ categorySelect.options[k].value # ANY_VALUE)
            => ~SegmentRelated(categorySelect.options[i].text,
                               categorySelect.options[k].text)

\* C17: after every handled event (initialization, a change of the primary
\* control, a change of the secondary control) an unselected option of the
\* secondary control whose path is an ancestor or a descendant of the path
\* of a selected secondary option is disabled and every other secondary
\* option is enabled, also for the options a primary change re-rendered.
C17_SecondaryDisabling ==
    (last \in {"init", "categoryChange", "excludeChange"}
        /\ listeners = {"category", "exclude"}) =>
        \A i \in DOMAIN excludeSelect.options :
            excludeSelect.options[i].disabled <=>
                /\ ~excludeSelect.options[i].selected
                /\ \E k \in DOMAIN excludeSelect.options :
                      /\ excludeSelect.options[k].selected
                      /\ SegmentRelated(excludeSelect.options[i].text,
                                        excludeSelect.options[k].text)

\* C18: a value that was selected in the secondary control and that a
\* change of the primary control removed from it is rendered unselected
\* when a later change of the primary control brings it back, the user
\* not having touched the secondary control in between.
C18_NotRemembered ==
    \A x \in dropped : x \notin SelectedValues(excludeSelect.options)

\* A change of the primary control brought a dropped value back.
C18_Witness ==
    /\ last = "categoryChange"
    /\ Rendered
    /\ \E x \in dropped :
          /\ x \in Values(excludeSelect.options)
          /\ x \notin Values(before.exclude.options)

====
